---- MODULE Spec2Model ----
(***************************************************************************)
(* Model of package slogging (src/slogging/logging.go): the process-wide   *)
(* zerolog logger configured by Init, the context helpers (IntoContext,    *)
(* From, WithRequestID .. WithIPAddress, the accessors), the detached      *)
(* With(kv...) logger and the legacy Logger built by New.                  *)
(*                                                                         *)
(* zerolog, zerolog/log, lumberjack and context are libraries the package  *)
(* calls.  Their operations are modelled by what they do to the values the *)
(* package hands them, at the line of logging.go that calls them:          *)
(*   - zerolog.ParseLevel matches the level names, "" being the name of    *)
(*     NoLevel, and reports an error for every other non-numeric string;   *)
(*   - zerolog.Ctx returns the logger stored in the context and otherwise  *)
(*     a non-nil disabled logger (the case logging.go:154 tests for);      *)
(*   - Logger.WithContext does not store a disabled logger into a context  *)
(*     that has none;                                                      *)
(*   - Context.Fields appends the map's pairs in key order to the logger's *)
(*     field buffer and never removes or rewrites a field already there;   *)
(*   - an event passes when its level reaches both the logger's level and  *)
(*     the global level, and then the logger's sampler (if any) decides;   *)
(*   - context.WithValue panics on a nil parent, and calling Value on a    *)
(*     nil context.Context panics.                                         *)
(***************************************************************************)
EXTENDS Integers, Sequences, FiniteSets, TLC

\* ------------------------------------------------------------------ bounds
MaxCtxs == 2
MaxSamplers == 1
MaxEmits == 2
MaxKv == 4

\* ------------------------------------------------------- Go values (any)
S(x) == [t |-> "string", v |-> x]
I(x) == [t |-> "int", v |-> x]
NilAny == [t |-> "nil", v |-> ""]

Vals == {"a", "b"}
Elems == {S("a"), S("b"), I("1")}
RoleVals == {S("a"), I("1")}
InboundVals == {S("a"), I("1")}
Errs == {"nil", "boom"}

\* Field names, in the byte order zerolog sorts map keys by.
KeyOrder == <<"1", "a", "api_id", "b", "ip_address", "operator_name", "request_id", "role", "trace_id">>

\* ----------------------------------------------------------- zerolog.Level
TraceLevel == -1
DebugLevel == 0
InfoLevel == 1
WarnLevel == 2
ErrorLevel == 3
FatalLevel == 4
PanicLevel == 5
NoLevel == 6
Disabled == 7

ParseLevel(s) ==
  CASE s = "trace" -> [lvl |-> TraceLevel, err |-> FALSE]
    [] s = "debug" -> [lvl |-> DebugLevel, err |-> FALSE]
    [] s = "info" -> [lvl |-> InfoLevel, err |-> FALSE]
    [] s = "warn" -> [lvl |-> WarnLevel, err |-> FALSE]
    [] s = "error" -> [lvl |-> ErrorLevel, err |-> FALSE]
    [] s = "fatal" -> [lvl |-> FatalLevel, err |-> FALSE]
    [] s = "panic" -> [lvl |-> PanicLevel, err |-> FALSE]
    [] s = "disabled" -> [lvl |-> Disabled, err |-> FALSE]
    [] s = "" -> [lvl |-> NoLevel, err |-> FALSE]
    [] OTHER -> [lvl |-> NoLevel, err |-> TRUE]

\* ---------------------------------------------------------------- Options
LevelStrs == {"", "bogus", "debug", "warn"}
Services == {"svc", "svc2"}

Options ==
  [Service : Services, Environment : {"dev"}, Pretty : BOOLEAN, Level : LevelStrs,
   WithCaller : BOOLEAN, SampleEvery : {0, 2}, FilePath : {"", "x.log"},
   MaxSizeMB : {0}, MaxBackups : {0}, MaxAgeDays : {0}, Compress : {FALSE},
   AlsoStdout : BOOLEAN, ExtraWriter : {"nil", "extra"}]

\* The options the context facade is exercised under.
FacadeOptions ==
  {o \in Options : /\ o.Service = "svc" /\ ~o.Pretty /\ o.FilePath = ""
                   /\ ~o.AlsoStdout /\ o.ExtraWriter = "nil" /\ ~o.WithCaller
                   /\ o.SampleEvery = 0 /\ o.Level = "warn"}

Max(a, b) == IF a >= b THEN a ELSE b

\* -------------------------------------------------------- zerolog.Logger
\* w: the sinks the logger writes to; rot: the lumberjack.Logger behind the
\* "file" sink (empty when there is none); context: the fields attached to
\* every event; sampleN/sid: the BasicSampler (sid 0: none).
NewLogger(sinks) ==
  [w |-> sinks, rot |-> <<>>, level |-> TraceLevel, context |-> <<>>,
   pretty |-> FALSE, ts |-> FALSE, caller |-> FALSE, sampleN |-> 0, sid |-> 0]

\* zerolog's disabledLogger: Nop(), i.e. New(nil).Level(Disabled).
disabledLogger == [NewLogger({}) EXCEPT !.level = Disabled]

\* The logger package zerolog/log starts with.
DefaultLogger == [NewLogger({"stderr"}) EXCEPT !.ts = TRUE]

Str(l, k, x) == [l EXCEPT !.context = Append(@, [k |-> k, v |-> S(x)])]

\* The type assertion v.(string), zero value on failure.
AsString(a) == IF a.t = "string" THEN a.v ELSE ""

\* ------------------------------------------------------- context.Context
\* vals: the chain of context.WithValue pairs, oldest first; zl: the logger
\* stored under zerolog's own context key (empty: none).
SKey(n) == [t |-> "string", n |-> n]
CKey(n) == [t |-> "ctxKey", n |-> n]

XRequestID == SKey("X-Request-ID")
APIID == SKey("api_id")
XOperator == SKey("x-operator")

ctxLoggerKey == CKey("logger")
ctxReqIDKey == CKey("request_id")
ctxOperatorNameKey == CKey("operator_name")
ctxRoleKey == CKey("role")
ctxTraceIDKey == CKey("trace_id")
ctxApiIDKey == CKey("api_id")
ctxIPAddressKey == CKey("ip_address")

NilCtx == [isNil |-> TRUE, vals |-> <<>>, zl |-> <<>>]
Background == [isNil |-> FALSE, vals |-> <<>>, zl |-> <<>>]

\* ctx.Value(key): the most recent pair with that key (type and name), else nil.
Value(ctx, key) ==
  LET idx == {i \in 1..Len(ctx.vals) : ctx.vals[i].k = key}
  IN IF idx = {} THEN NilAny
     ELSE ctx.vals[CHOOSE i \in idx : \A j \in idx : j <= i].v

WithValue(ctx, key, val) == [ctx EXCEPT !.vals = Append(@, [k |-> key, v |-> val])]

\* zerolog.Ctx: a pointer (a sequence of length one), never nil.
Ctx(ctx) == IF ctx.zl # <<>> THEN <<ctx.zl[1]>> ELSE <<disabledLogger>>

\* Logger.WithContext
WithContext(l, ctx) ==
  IF ctx.zl = <<>> /\ l.level = Disabled THEN ctx ELSE [ctx EXCEPT !.zl = <<l>>]

\* Context.Fields(map): the pairs of m, keys sorted, appended to the buffer.
Fields(l, m) ==
  LET ks == SelectSeq(KeyOrder, LAMBDA k : k \in DOMAIN m)
  IN [l EXCEPT !.context = @ \o [i \in 1..Len(ks) |-> [k |-> ks[i], v |-> m[ks[i]]]]]

\* ---------------------------------------------------------------- kvToMap
EmptyMap == [x \in {} |-> NilAny]
Put(m, k, x) == [y \in (DOMAIN m) \cup {k} |-> IF y = k THEN x ELSE m[y]]

RECURSIVE kvLoop(_, _, _)
\* i is the Go index (0-based); kv[i] is kv[i + 1] here.
kvLoop(kv, i, m) ==
  IF i + 1 < Len(kv)
    THEN IF kv[i + 1].t # "string"
           THEN kvLoop(kv, i + 2, m)
           ELSE kvLoop(kv, i + 2, Put(m, kv[i + 1].v, kv[i + 2]))
    ELSE m

RECURSIVE kvLoopNoSkip(_, _, _)
kvLoopNoSkip(kv, i, m) ==
  IF i + 1 < Len(kv)
    THEN kvLoopNoSkip(kv, i + 2, Put(m, kv[i + 1].v, kv[i + 2]))
    ELSE m

kvToMapNoSkip(kv) == kvLoopNoSkip(kv, 0, EmptyMap)

kvToMap(kv) == kvLoop(kv, 0, EmptyMap)

RECURSIVE SeqsUpTo(_, _)
SeqsUpTo(E, n) ==
  IF n = 0 THEN {<<>>}
  ELSE LET R == SeqsUpTo(E, n - 1)
       IN R \cup {Append(q, e) : q \in {r \in R : Len(r) = n - 1}, e \in E}

KvLists == SeqsUpTo(Elems, MaxKv)
\* The argument lists direct IntoContext calls are made with: empty, a pair,
\* a non-string key, an unpaired element.
IntoKvLists == {<<>>, <<S("a"), S("b")>>, <<S("a"), I("1")>>, <<I("1"), S("a")>>, <<S("b")>>}

\* ------------------------------------------------------------------ state
VARIABLES
  gLevel,             \* zerolog's global level (SetGlobalLevel)
  logger,             \* log.Logger, the process-wide logger
  CallerMarshalFunc,  \* zerolog.CallerMarshalFunc: "default" or "custom"
  TimeFieldFormat,    \* zerolog.TimeFieldFormat
  samplers,           \* the counter of every BasicSampler created so far
  lastOpt,            \* the Options of the last Init call (empty: none yet)
  ctxs,               \* the contexts the callers hold, in creation order
  hist,               \* per context: its parent and the WithX calls that built it
  legacy,             \* the *Logger last built by New (empty: none)
  ret,                \* what the last call returned or emitted
  panicked            \* the operation that panicked ("none": the process runs)

vars == <<gLevel, logger, CallerMarshalFunc, TimeFieldFormat, samplers, lastOpt,
          ctxs, hist, legacy, ret, panicked>>

globals == <<gLevel, logger, CallerMarshalFunc, TimeFieldFormat, samplers, lastOpt>>

NoRet ==
  [op |-> "none", arg |-> -1, kv |-> <<>>, lg |-> <<>>, val |-> NilAny,
   ev |-> <<>>, lvl |-> NoLevel]

\* Context arguments: -1 is a nil context, 0 context.Background(), i > 0 ctxs[i].
\* A request threads its context along the call chain: every helper is handed
\* the newest context (or nil), and ctxs keeps the older ones it was built from.
Top == Len(ctxs)
CtxArgs == {-1, Top}
ReadArgs == {-1, 0, Top}
CtxAt(i) == IF i = -1 THEN NilCtx ELSE IF i = 0 THEN Background ELSE ctxs[i]

Start ==
  /\ gLevel = DebugLevel
  /\ logger = DefaultLogger
  /\ CallerMarshalFunc = "default"
  /\ TimeFieldFormat = "RFC3339"
  /\ samplers = <<>>
  /\ lastOpt = <<>>
  /\ ctxs = <<>>
  /\ hist = <<>>
  /\ legacy = <<>>
  /\ ret = NoRet
  /\ panicked = "none"

\* ------------------------------------------------------------------- Init
\* The writer Init builds: its sinks and the lumberjack.Logger behind "file".
InitWriter(opt) ==
  IF opt.FilePath # ""
    THEN LET r == [Filename |-> opt.FilePath, MaxSize |-> Max(1, opt.MaxSizeMB),
                   MaxBackups |-> Max(0, opt.MaxBackups), MaxAge |-> Max(0, opt.MaxAgeDays),
                   Compress |-> opt.Compress]
         IN CASE opt.AlsoStdout /\ opt.ExtraWriter # "nil" ->
                   [w |-> {"file", "stdout", "extra"}, rot |-> <<r>>]
              [] opt.AlsoStdout /\ ~(opt.ExtraWriter # "nil") ->
                   [w |-> {"file", "stdout"}, rot |-> <<r>>]
              [] ~opt.AlsoStdout /\ opt.ExtraWriter # "nil" ->
                   [w |-> {"file", "extra"}, rot |-> <<r>>]
              [] OTHER -> [w |-> {"file"}, rot |-> <<r>>]
    ELSE [w |-> {"stdout"}, rot |-> <<>>]

\* The logger Init installs; newSid names the sampler it would create.
InitLogger(opt, newSid) ==
  LET out == InitWriter(opt)
      base0 == [NewLogger(out.w) EXCEPT !.rot = out.rot, !.pretty = opt.Pretty, !.ts = TRUE]
      base == IF opt.SampleEvery > 1
                THEN [base0 EXCEPT !.sampleN = opt.SampleEvery, !.sid = newSid]
                ELSE base0
      fields == Str(Str(base, "service", opt.Service), "env", opt.Environment)
  IN IF opt.WithCaller THEN [fields EXCEPT !.caller = TRUE] ELSE fields

InitLevel(opt) ==
  LET p == ParseLevel(opt.Level) IN IF p.err THEN InfoLevel ELSE p.lvl

Init(opt) ==
  /\ panicked = "none"
  /\ opt.SampleEvery > 1 => Len(samplers) < MaxSamplers
  /\ TimeFieldFormat' = "RFC3339"
  /\ gLevel' = InitLevel(opt)
  /\ samplers' = IF opt.SampleEvery > 1 THEN Append(samplers, 0) ELSE samplers
  /\ CallerMarshalFunc' = IF opt.WithCaller THEN "custom" ELSE CallerMarshalFunc
  /\ logger' = InitLogger(opt, Len(samplers) + 1)
  /\ lastOpt' = <<opt>>
  /\ ret' = [NoRet EXCEPT !.op = "Init"]
  /\ UNCHANGED <<ctxs, hist, legacy, panicked>>

\* ----------------------------------------------------- With / IntoContext
\* With(kv...): log.Logger.With().Fields(kvToMap(kv...)).Logger()
With(kv) == Fields(logger, kvToMap(kv))

IntoContext(ctx, kv) ==
  LET fields == kvToMap(kv)
      base == Ctx(ctx)
  IN IF base # <<>> /\ base[1].level # Disabled
       THEN WithContext(Fields(base[1], fields), ctx)
       ELSE WithContext(Fields(logger, fields), ctx)

From(ctx) ==
  IF ctx.isNil THEN logger
  ELSE IF Ctx(ctx) # <<>> THEN Ctx(ctx)[1]
  ELSE IF Value(ctx, ctxLoggerKey).t = "*zerolog.Logger" THEN logger
  ELSE logger

\* ---------------------------------------------------------------- accessors
RequestID(ctx) ==
  LET v == Value(ctx, ctxReqIDKey) IN IF v.t = "string" THEN v ELSE S("")

OperatorID(ctx) ==
  LET v == Value(ctx, ctxOperatorNameKey) IN IF v.t = "string" THEN v ELSE S("")

Role(ctx) == Value(ctx, ctxRoleKey)

TraceID(ctx) ==
  LET v == Value(ctx, ctxTraceIDKey) IN IF v.t = "string" THEN v ELSE S("")

\* A New that reads the facade's typed keys instead of the string keys.
NewFromFacade(ctx) ==
  [requestID |-> AsString(Value(ctx, ctxReqIDKey)),
   apiID |-> AsString(Value(ctx, ctxApiIDKey)),
   operator |-> AsString(Value(ctx, ctxOperatorNameKey))]

\* New(ctx): the legacy Logger's three fields.
New(ctx) ==
  [requestID |-> AsString(Value(ctx, XRequestID)),
   apiID |-> AsString(Value(ctx, APIID)),
   operator |-> AsString(Value(ctx, XOperator))]

\* ------------------------------------------------------------- the calls
\* A nil context.Context: the method call (or context.WithValue) panics.
Panic(op, p) ==
  /\ panicked' = op
  /\ ret' = [NoRet EXCEPT !.op = op, !.arg = p]
  /\ UNCHANGED <<globals, ctxs, hist, legacy>>

CallsOf(p) == IF p <= 0 THEN <<>> ELSE hist[p].calls

\* The caller keeps the context a WithX helper returned.
Keep(op, p, child, calls) ==
  /\ ctxs' = Append(ctxs, child)
  /\ hist' = Append(hist, [parent |-> p, op |-> op, calls |-> calls])
  /\ ret' = [NoRet EXCEPT !.op = op, !.arg = p]
  /\ UNCHANGED <<globals, legacy, panicked>>

WithField(op, p, key, name, val) ==
  /\ panicked = "none"
  /\ IF CtxAt(p).isNil
       THEN Panic(op, p)
       ELSE /\ Len(ctxs) < MaxCtxs
            /\ Keep(op, p, IntoContext(WithValue(CtxAt(p), key, val), <<S(name), val>>),
                    Append(CallsOf(p), [x |-> name, v |-> val]))

\* A helper that stores the raw value under the trace ID's key.
WithRequestIDWrongKey(p, reqID) ==
  WithField("WithRequestID", p, ctxTraceIDKey, "request_id", S(reqID))

\* A helper that overwrites the parent the caller holds instead of leaving it.
WithRequestIDInPlace(p, reqID) ==
  /\ panicked = "none"
  /\ p > 0
  /\ ctxs' = [ctxs EXCEPT ![p] = IntoContext(WithValue(ctxs[p], ctxReqIDKey, S(reqID)),
                                             <<S("request_id"), S(reqID)>>)]
  /\ ret' = [NoRet EXCEPT !.op = "WithRequestID", !.arg = p]
  /\ UNCHANGED <<globals, hist, legacy, panicked>>

WithRequestID(p, reqID) == WithField("WithRequestID", p, ctxReqIDKey, "request_id", S(reqID))

WithAPIID(p, apiID) == WithField("WithAPIID", p, ctxApiIDKey, "api_id", S(apiID))

WithOperatorName(p, operatorID) ==
  WithField("WithOperatorName", p, ctxOperatorNameKey, "operator_name", S(operatorID))

WithRole(p, role) == WithField("WithRole", p, ctxRoleKey, "role", role)

WithTraceID(p, traceID) == WithField("WithTraceID", p, ctxTraceIDKey, "trace_id", S(traceID))

WithIPAddress(p, ipAddress) ==
  WithField("WithIPAddress", p, ctxIPAddressKey, "ip_address", S(ipAddress))

\* A direct call of IntoContext(ctx, kv...).  log.Ctx(nil) panics.
CallIntoContext(p, kv) ==
  /\ panicked = "none"
  /\ IF CtxAt(p).isNil
       THEN Panic("IntoContext", p)
       ELSE /\ Len(ctxs) < MaxCtxs
            /\ Keep("IntoContext", p, IntoContext(CtxAt(p), kv), <<>>)

\* The request's entry point stores a value under one of the string keys.
Inbound(p, key, val) ==
  /\ panicked = "none"
  /\ ~CtxAt(p).isNil
  /\ Len(ctxs) < MaxCtxs
  /\ Keep("Inbound", p, WithValue(CtxAt(p), key, val), CallsOf(p))

CallWith(kv) ==
  /\ panicked = "none"
  /\ ret' = [NoRet EXCEPT !.op = "With", !.kv = kv, !.lg = <<With(kv)>>]
  /\ UNCHANGED <<globals, ctxs, hist, legacy, panicked>>

CallFrom(p) ==
  /\ panicked = "none"
  /\ ret' = [NoRet EXCEPT !.op = "From", !.arg = p, !.lg = <<From(CtxAt(p))>>]
  /\ UNCHANGED <<globals, ctxs, hist, legacy, panicked>>

Read(op, p, val) ==
  /\ panicked = "none"
  /\ IF CtxAt(p).isNil
       THEN Panic(op, p)
       ELSE /\ ret' = [NoRet EXCEPT !.op = op, !.arg = p, !.val = val]
            /\ UNCHANGED <<globals, ctxs, hist, legacy, panicked>>

CallRequestID(p) == Read("RequestID", p, RequestID(CtxAt(p)))

CallOperatorID(p) == Read("OperatorID", p, OperatorID(CtxAt(p)))

CallRole(p) == Read("Role", p, Role(CtxAt(p)))

CallTraceID(p) == Read("TraceID", p, TraceID(CtxAt(p)))

CallNew(p) ==
  /\ panicked = "none"
  /\ IF CtxAt(p).isNil
       THEN Panic("New", p)
       ELSE /\ legacy' = <<[l |-> New(CtxAt(p)), src |-> p]>>
            /\ ret' = [NoRet EXCEPT !.op = "New", !.arg = p]
            /\ UNCHANGED <<globals, ctxs, hist, panicked>>

\* ---------------------------------------------------------------- events
\* Logger.should, before the sampler is asked.
should(l, lvl) == l.w # {} /\ ~(lvl < l.level \/ lvl < gLevel)

Event(l, lvl, extra) ==
  [level |-> lvl, fields |-> l.context \o extra, sinks |-> l.w, pretty |-> l.pretty,
   ts |-> l.ts, caller |-> IF l.caller THEN CallerMarshalFunc ELSE "none"]

\* One event of level lvl through logger l, with the event's own fields extra.
\* BasicSampler.Sample: n := counter + 1; n % N == 1.
EmitVia(op, p, l, lvl, extra) ==
  LET pass == should(l, lvl)
      asked == pass /\ l.sid # 0
      n == IF asked THEN samplers[l.sid] + 1 ELSE 0
      written == pass /\ (l.sid = 0 \/ n % l.sampleN = 1)
  IN /\ panicked = "none"
     /\ asked => samplers[l.sid] < MaxEmits
     /\ samplers' = IF asked THEN [samplers EXCEPT ![l.sid] = n] ELSE samplers
     /\ ret' = [NoRet EXCEPT !.op = op, !.arg = p, !.lvl = lvl, !.lg = <<l>>,
                             !.ev = IF written THEN <<Event(l, lvl, extra)>> ELSE <<>>]
     /\ UNCHANGED <<gLevel, logger, CallerMarshalFunc, TimeFieldFormat, lastOpt,
                    ctxs, hist, legacy, panicked>>

EmitLevels == {DebugLevel, InfoLevel}

\* From(ctx).WithLevel(lvl).Msg(...)
Emit(p, lvl) == EmitVia("Emit", p, From(CtxAt(p)), lvl, <<>>)

LegacyFields(l) ==
  <<[k |-> "X-Request-ID", v |-> S(l.requestID)],
    [k |-> "api_id", v |-> S(l.apiID)],
    [k |-> "x-operator", v |-> S(l.operator)]>>

\* (*Logger).Info().Msg(...)
Info ==
  /\ legacy # <<>>
  /\ EmitVia("Info", legacy[1].src, logger, InfoLevel, LegacyFields(legacy[1].l))

\* (*Logger).Error(err).Msg(...): Err(nil) adds no field.
Error(err) ==
  /\ legacy # <<>>
  /\ EmitVia("Error", legacy[1].src, logger, ErrorLevel,
             LegacyFields(legacy[1].l)
               \o (IF err = "nil" THEN <<>> ELSE <<[k |-> "error", v |-> S(err)]>>))

\* ------------------------------------------------------- specifications
Facade ==
  \/ \E p \in CtxArgs, v \in Vals : WithRequestID(p, v)
  \/ \E p \in CtxArgs, v \in Vals : WithAPIID(p, v)
  \/ \E p \in CtxArgs, v \in Vals : WithOperatorName(p, v)
  \/ \E p \in CtxArgs, v \in RoleVals : WithRole(p, v)
  \/ \E p \in CtxArgs, v \in Vals : WithTraceID(p, v)
  \/ \E p \in CtxArgs, v \in Vals : WithIPAddress(p, v)
  \/ \E p \in CtxArgs, kv \in IntoKvLists : CallIntoContext(p, kv)
  \/ \E kv \in IntoKvLists : CallWith(kv)
  \/ \E p \in ReadArgs : CallFrom(p)
  \/ \E p \in ReadArgs : CallRequestID(p)
  \/ \E p \in ReadArgs : CallOperatorID(p)
  \/ \E p \in ReadArgs : CallRole(p)
  \/ \E p \in ReadArgs : CallTraceID(p)
  \/ \E p \in ReadArgs, lvl \in EmitLevels : Emit(p, lvl)

Next ==
  \/ \E opt \in FacadeOptions : Init(opt)
  \/ Facade

Spec == Start /\ [][Next]_vars

\* The legacy Logger: contexts built by the entry point and the helpers, New,
\* Info and Error.
NextLegacy ==
  \/ \E opt \in FacadeOptions : Init(opt)
  \/ \E p \in CtxArgs, key \in {XRequestID, APIID, XOperator}, v \in InboundVals : Inbound(p, key, v)
  \/ \E p \in CtxArgs, v \in Vals : WithRequestID(p, v)
  \/ \E p \in CtxArgs, v \in Vals : WithAPIID(p, v)
  \/ \E p \in CtxArgs, v \in Vals : WithOperatorName(p, v)
  \/ \E p \in ReadArgs : CallNew(p)
  \/ Info
  \/ \E err \in Errs : Error(err)

SpecLegacy == Start /\ [][NextLegacy]_vars

\* The detached logger: With on every argument list up to MaxKv.
NextWith ==
  \/ \E opt \in FacadeOptions : Init(opt)
  \/ \E kv \in KvLists : CallWith(kv)

SpecWith == Start /\ [][NextWith]_vars

\* The configuration: Init on every option set, events through From.
NextCfg ==
  \/ \E opt \in Options : Init(opt)
  \/ \E p \in ReadArgs, lvl \in EmitLevels : Emit(p, lvl)

SpecCfg == Start /\ [][NextCfg]_vars

\* ---------------------------------------------------------------- helpers
WithXOps ==
  {"WithRequestID", "WithAPIID", "WithOperatorName", "WithRole", "WithTraceID", "WithIPAddress"}

\* The fields a sequence of WithX calls wrote, and the last value written to one.
KeysOf(calls) == {calls[i].x : i \in 1..Len(calls)}
LastVal(calls, x) ==
  calls[CHOOSE i \in 1..Len(calls) :
          calls[i].x = x /\ \A j \in 1..Len(calls) : calls[j].x = x => j <= i].v

\* Where field k stands in a sequence of fields, and its last value there.
Places(fs, k) == {i \in 1..Len(fs) : fs[i].k = k}
LastField(fs, k) == fs[CHOOSE i \in Places(fs, k) : \A j \in Places(fs, k) : j <= i].v

AccessorKeys == {"request_id", "operator_name", "role", "trace_id"}
Accessor(x, ctx) ==
  CASE x = "request_id" -> RequestID(ctx)
    [] x = "operator_name" -> OperatorID(ctx)
    [] x = "role" -> Role(ctx)
    [] x = "trace_id" -> TraceID(ctx)

AccessorOf(op) ==
  CASE op = "RequestID" -> "request_id"
    [] op = "OperatorID" -> "operator_name"
    [] op = "Role" -> "role"
    [] op = "TraceID" -> "trace_id"

\* ----------------------------------------------------------------- claims

\* C1: From on a context (nil or not) that carries no attached logger returns
\* the process-wide global logger itself: same sinks, level and fields.
C1_FromFallsBackToGlobal ==
  (ret.op = "From" /\ CtxAt(ret.arg).zl = <<>>) => ret.lg = <<logger>>

\* C2: no facade operation panics, whatever context it is given, nil included.
C2_NoOperationPanics == panicked = "none"

\* C3: after any sequence of WithX calls, for every field X the sequence set,
\* the accessor of X returns the value of the last WithX call for X, and the
\* logger From returns for the resulting context, and every event written
\* through it, carries X with that value as the value in force (the last one).
C3_LastWriteVisible ==
  /\ \A i \in 1..Len(ctxs) : \A x \in KeysOf(hist[i].calls) :
       /\ x \in AccessorKeys => Accessor(x, ctxs[i]) = LastVal(hist[i].calls, x)
       /\ Places(From(ctxs[i]).context, x) # {}
       /\ LastField(From(ctxs[i]).context, x) = LastVal(hist[i].calls, x)
  /\ (ret.op \in {"RequestID", "OperatorID", "Role", "TraceID"} /\ ret.arg > 0
        /\ panicked = "none" /\ AccessorOf(ret.op) \in KeysOf(hist[ret.arg].calls))
       => ret.val = LastVal(hist[ret.arg].calls, AccessorOf(ret.op))
  /\ (ret.op = "Emit" /\ ret.arg > 0 /\ ret.ev # <<>>)
       => \A x \in KeysOf(hist[ret.arg].calls) :
            /\ Places(ret.ev[1].fields, x) # {}
            /\ LastField(ret.ev[1].fields, x) = LastVal(hist[ret.arg].calls, x)

\* C3 witness: an event was written through the logger of a context on which
\* one field was set twice, to two different values.
C3_Witness ==
  /\ ret.op = "Emit" /\ ret.arg > 0 /\ ret.ev # <<>>
  /\ \E i, j \in 1..Len(hist[ret.arg].calls) :
       /\ i < j
       /\ hist[ret.arg].calls[i].x = hist[ret.arg].calls[j].x
       /\ hist[ret.arg].calls[i].v # hist[ret.arg].calls[j].v

\* C4: the logger attached by a sequence of WithX calls carries a field set
\* keyed by name: every field written is there exactly once, with the value
\* last written to it (so the order of writes to distinct keys is immaterial).
C4_FieldSetKeyedByName ==
  \A i \in 1..Len(ctxs) : \A x \in KeysOf(hist[i].calls) :
    /\ Cardinality(Places(From(ctxs[i]).context, x)) = 1
    /\ LastField(From(ctxs[i]).context, x) = LastVal(hist[i].calls, x)

\* C5: a WithX, IntoContext or With call leaves every context that existed
\* before it as it was (its values, and the logger From returns for it), and
\* leaves the global logger, its sinks, fields and the global level untouched.
C5_Frame ==
  [][ /\ \A i \in 1..Len(ctxs) :
           /\ i <= Len(ctxs')
           /\ ctxs'[i] = ctxs[i]
           /\ (ret'.op # "Init" => From(ctxs[i])' = From(ctxs[i]))
      /\ (ret'.op \in WithXOps \cup {"IntoContext", "With"})
           => /\ logger' = logger
              /\ gLevel' = gLevel
              /\ CallerMarshalFunc' = CallerMarshalFunc
              /\ samplers' = samplers ]_vars

\* C5 witness: a WithX call has just derived a child from a context that was
\* itself derived by a helper.
C5_Witness == ret.op \in WithXOps /\ ret.arg > 0 /\ Len(ctxs) > ret.arg /\ panicked = "none"

\* The fields a logger or an event carries after the first n.
After(fs, n) == SubSeq(fs, n + 1, Len(fs))

\* The positions of kv that hold the key of a well-formed pair with key k.
PairsOf(kv, k) == {i \in 1..Len(kv) : i % 2 = 1 /\ i + 1 <= Len(kv) /\ kv[i] = S(k)}

\* C8: With(kv...) returns, for every flat list, a logger whose extra fields
\* are exactly the pairs at even positions whose key is a string, each key
\* once, with the value of its last such pair; unpaired and non-string-keyed
\* elements add nothing.
C8_WithKeepsWellFormedPairs ==
  ret.op = "With" =>
    /\ Len(ret.lg) = 1
    /\ SubSeq(ret.lg[1].context, 1, Len(logger.context)) = logger.context
    /\ LET extra == After(ret.lg[1].context, Len(logger.context))
       IN /\ \A j \in 1..Len(extra) : PairsOf(ret.kv, extra[j].k) # {}
          /\ \A i \in 1..Len(ret.kv) :
               (ret.kv[i].t = "string" /\ PairsOf(ret.kv, ret.kv[i].v) # {})
                 => LET ps == PairsOf(ret.kv, ret.kv[i].v)
                        last == CHOOSE n \in ps : \A m \in ps : m <= n
                    IN /\ Cardinality(Places(extra, ret.kv[i].v)) = 1
                       /\ LastField(extra, ret.kv[i].v) = ret.kv[last + 1]

\* C8 witness: With("a", 1, "b") returned a logger whose only extra field is a: 1.
C8_Witness ==
  /\ ret.op = "With"
  /\ ret.kv = <<S("a"), I("1"), S("b")>>
  /\ After(ret.lg[1].context, Len(logger.context)) = <<[k |-> "a", v |-> I("1")]>>

\* The fields a legacy event carries besides those of the global logger.
OwnFields == After(ret.ev[1].fields, Len(logger.context))

BadLevel(o) == o.Level = "" \/ ParseLevel(o.Level).err

\* C6: after Init with a missing or unparseable level the threshold is info
\* (info and above written, debug suppressed); otherwise it is the level named.
C6_BadLevelMeansInfo ==
  lastOpt # <<>> =>
    /\ gLevel = (IF BadLevel(lastOpt[1]) THEN InfoLevel ELSE ParseLevel(lastOpt[1].Level).lvl)
    /\ (ret.op = "Emit" /\ ret.arg = -1 /\ BadLevel(lastOpt[1]) /\ logger.sid = 0)
         => (ret.ev # <<>> <=> ret.lvl >= InfoLevel)

\* The sinks the options configure.
ConfiguredSinks(o) ==
  (IF o.FilePath # "" THEN {"file"} ELSE {"stdout"})
    \cup (IF o.AlsoStdout THEN {"stdout"} ELSE {})
    \cup (IF o.ExtraWriter # "nil" THEN {"extra"} ELSE {})

\* C7: after Init, every event the global logger writes goes to all the
\* configured sinks: the primary one, stdout if alsoStdout, extraWriter if set.
C7_AllConfiguredSinks ==
  lastOpt # <<>> =>
    /\ logger.w = ConfiguredSinks(lastOpt[1])
    /\ (ret.op = "Emit" /\ ret.arg = -1 /\ ret.ev # <<>>)
         => ret.ev[1].sinks = ConfiguredSinks(lastOpt[1])

\* The process-wide logging state, sampler identity left out.
GlobalState ==
  [gLevel |-> gLevel, logger |-> [logger EXCEPT !.sid = 0],
   CallerMarshalFunc |-> CallerMarshalFunc, TimeFieldFormat |-> TimeFieldFormat]

\* What Init(o) leaves on a process in which nothing was configured before.
FreshAfter(o) ==
  [gLevel |-> InitLevel(o), logger |-> [InitLogger(o, 1) EXCEPT !.sid = 0],
   CallerMarshalFunc |-> IF o.WithCaller THEN "custom" ELSE "default",
   TimeFieldFormat |-> "RFC3339"]

\* C10: after any sequence of Init calls the process-wide state is the one the
\* last call alone produces on a fresh process.
C10_InitReplacesAll == lastOpt # <<>> => GlobalState = FreshAfter(lastOpt[1])

====
